---------------------------- MODULE Spec2Model ----------------------------
(***************************************************************************)
(* State-keyed OAuth hand-off: the auth server (server/index.js: authStore, *)
(* the sweep timer, the start / callback / status handlers) and the popup   *)
(* controller of the embedding page (App component, api/auth.ts,            *)
(* api/client.ts).                                                          *)
(*                                                                          *)
(* Spec       : the server.  Handlers run to completion except the callback,*)
(*              which is suspended at its two awaits (token exchange,       *)
(*              tokeninfo) and resumed by the provider's reply.             *)
(* ClientSpec : the popup controller against the status endpoint, with      *)
(*              polls that may use their whole budget.                      *)
(* ReentrySpec: the popup controller with more sign-in clicks and short     *)
(*              polls.                                                      *)
(***************************************************************************)
EXTENDS Integers, Sequences, FiniteSets, Bags, TLC

(***************************************************************************)
(* Bounds of the model.                                                     *)
(***************************************************************************)
\* callback handlers that reach the provider exchange in one run
MaxCallbacks == 1
\* sweep intervals the clock runs through (the TTL is 5 of them, and a record may wait one more)
HorizonSweeps == 6

(***************************************************************************)
(* Values.                                                                  *)
(***************************************************************************)
\* JavaScript's undefined (a query parameter or field that is missing)
Undefined == "undefined"
\* JavaScript's null user (no id_token in the token bundle)
NullUser == [null |-> TRUE]

\* the state-tokens of a run; the store keeps one record per token and no
\* handler reads a key other than its own
StateTokens == {1, 2}
\* a callback whose query string has no state parameter
NoState == 0

\* authStore.get(state) of a key that is not in the Map
NoEntry == [status |-> "none"]

\* 5 * 60 * 1000
AUTH_TTL_MS == 5 * 60 * 1000
\* the interval of the cleanup timer, 60 * 1000
SWEEP_INTERVAL_MS == 60 * 1000
\* the clock moves from one cleanup tick to the next
TickMs == SWEEP_INTERVAL_MS
HorizonMs == HorizonSweeps * SWEEP_INTERVAL_MS

\* the client identifier of a configured server, and another application's
OurClientId == "our-client"
OtherClientId == "other-client"

(***************************************************************************)
(* The identity provider, as the callback sees it.                          *)
(***************************************************************************)
\* id tokens the provider can put into a token bundle
IdTokens == {"I_ours", "I_other"}

\* what https://oauth2.googleapis.com/tokeninfo resolves an id token to
Tokeninfo(idToken) ==
    IF idToken = "I_ours"
    THEN [aud |-> OurClientId, sub |-> "sub-1", email_verified |-> "true"]
    ELSE [aud |-> OtherClientId, sub |-> "sub-2", email_verified |-> "false"]

\* token bundles of a successful code exchange (id_token is optional)
TokenBundles ==
    [access_token : {"T"}, id_token : IdTokens \cup {Undefined}]

\* a failed provider call, as axios rejects: error_description of the
\* provider's error body (when there is a response) and the Error's message
ProviderErrors ==
    { [description |-> "invalid_grant", message |-> "status 400"],
      [description |-> Undefined, message |-> "Network Error"] }

\* err?.response?.data?.error_description || err.message || 'Token exchange failed'
ErrorMessage(err) ==
    IF err.description # Undefined /\ err.description # ""
    THEN err.description
    ELSE IF err.message # Undefined /\ err.message # ""
         THEN err.message
         ELSE "Token exchange failed"

\* new Error('Token audience mismatch'): no response, only a message
AudienceMismatch == [description |-> Undefined, message |-> "Token audience mismatch"]

(***************************************************************************)
(* Session records.                                                         *)
(***************************************************************************)
PendingEntry(t) ==
    [status |-> "pending", createdAt |-> t]

ErrorEntry(cause, t) ==
    [status |-> "error", error |-> cause, createdAt |-> t]

\* user of the complete record, derived from the verified token
DerivedUser(verified) ==
    [sub |-> verified.sub, email_verified |-> (verified.email_verified = "true")]

CompleteEntry(tokenData, user, t) ==
    [status |-> "complete", createdAt |-> t,
     access_token |-> tokenData.access_token,
     id_token |-> tokenData.id_token,
     user |-> user]

IsTerminal(entry) == entry.status \in {"complete", "error"}

VARIABLES
    CLIENT_ID,      \* process.env.GOOGLE_CLIENT_ID, or Undefined
    authStore,      \* the Map: state-token -> record, NoEntry for a missing key
    now,            \* Date.now(), ms since the server started
    nextSweep,      \* when the cleanup timer fires next
    issued,         \* state-tokens crypto.randomBytes has produced so far
    callbacks,      \* callback handlers that reached an await: Seq of records
    delivered,      \* history: terminal payloads status has answered, per token
    pendingSince,   \* history: when start created the record of a token no callback
                    \* has written a terminal status for; -1 for any other token
    owed,           \* history: error cause a callback wrote over a pending record
    startedAt,      \* history: when start created the record the store holds
                    \* for a token; -1 for a token start has not issued or
                    \* whose record has been deleted
    promised,       \* history: the status answer the last successful callback
                    \* of a token stored, until status is called for the token
    answered        \* history: "pending" or "not_found" when status has
                    \* answered so for a token and no handler or sweep has
                    \* written or deleted its record since; "none" otherwise

serverVars ==
    <<CLIENT_ID, authStore, now, nextSweep, issued, callbacks,
      delivered, pendingSince, owed, startedAt, promised, answered>>

\* values of promised: no successful callback since the last status call, and
\* the stored result was handed out by the last status call
NoPromise == [http |-> 0, status |-> "none"]
Consumed == [http |-> 0, status |-> "consumed"]

ServerInit ==
    /\ CLIENT_ID \in {OurClientId, Undefined}
    /\ authStore = [s \in StateTokens |-> NoEntry]
    /\ now = 0
    /\ nextSweep = SWEEP_INTERVAL_MS
    /\ issued = {}
    /\ callbacks = <<>>
    /\ delivered = [s \in StateTokens |-> 0]
    /\ pendingSince = [s \in StateTokens |-> -1]
    /\ owed = [s \in StateTokens |-> Undefined]
    /\ startedAt = [s \in StateTokens |-> -1]
    /\ promised = [s \in StateTokens |-> NoPromise]
    /\ answered = [s \in StateTokens |-> "none"]

\* authStore.has(state), for a query parameter that may be missing
Has(state) == state \in StateTokens /\ authStore[state] # NoEntry

(***************************************************************************)
(* The clock and the cleanup timer.                                         *)
(***************************************************************************)
\* time passes; a due cleanup tick runs before the clock moves past it
Tick ==
    /\ now + TickMs <= HorizonMs
    /\ now + TickMs <= nextSweep
    /\ now' = now + TickMs
    /\ UNCHANGED <<CLIENT_ID, authStore, nextSweep, issued, callbacks,
                   delivered, pendingSince, owed, startedAt, promised, answered>>

\* a cleanup test that lets a record live one interval longer than the TTL
Expired_OneIntervalLate(entry, t) ==
    t - entry.createdAt > AUTH_TTL_MS + SWEEP_INTERVAL_MS

\* the per-record test of the cleanup timer
Expired(entry, t) == t - entry.createdAt > AUTH_TTL_MS

\* setInterval(() => {...}, 60 * 1000)
Sweep ==
    /\ now = nextSweep
    /\ authStore' = [s \in StateTokens |->
                        IF authStore[s] # NoEntry /\ Expired(authStore[s], now)
                        THEN NoEntry ELSE authStore[s]]
    /\ nextSweep' = nextSweep + SWEEP_INTERVAL_MS
    /\ owed' = [s \in StateTokens |->
                   IF authStore'[s] = NoEntry THEN Undefined ELSE owed[s]]
    /\ startedAt' = [s \in StateTokens |->
                        IF authStore'[s] = NoEntry THEN -1 ELSE startedAt[s]]
    /\ answered' = [s \in StateTokens |->
                       IF authStore'[s] # authStore[s] THEN "none" ELSE answered[s]]
    /\ UNCHANGED <<CLIENT_ID, now, issued, callbacks, delivered, pendingSince,
                   promised>>

\* crypto.randomBytes(32).toString('hex'): a token no earlier start produced;
\* tokens are opaque, so the fresh ones are taken in order
FreshTokens(used) ==
    IF StateTokens \ used = {} THEN {}
    ELSE {CHOOSE s \in StateTokens \ used : \A u \in StateTokens \ used : s <= u}

(***************************************************************************)
(* GET /auth/google/start                                                   *)
(***************************************************************************)
Start ==
    \/ /\ CLIENT_ID = Undefined
       /\ UNCHANGED <<CLIENT_ID, authStore, now, nextSweep, issued, callbacks,
                      delivered, pendingSince, owed, startedAt, promised, answered>>
    \/ /\ CLIENT_ID # Undefined
       /\ \E state \in FreshTokens(issued) :
            /\ issued' = issued \cup {state}
            /\ authStore' = [authStore EXCEPT ![state] = PendingEntry(now)]
            /\ pendingSince' = [pendingSince EXCEPT ![state] = now]
            /\ startedAt' = [startedAt EXCEPT ![state] = now]
            /\ answered' = [answered EXCEPT ![state] = "none"]
       /\ UNCHANGED <<CLIENT_ID, now, nextSweep, callbacks, delivered, owed,
                      promised>>

(***************************************************************************)
(* GET /auth/google/status/:state                                           *)
(***************************************************************************)
\* a handler without the !entry guard: a missing record is no normal answer
StatusResponse_NoGuard(entry) ==
    IF entry = NoEntry
    THEN [http |-> 500, status |-> "TypeError"]
    ELSE IF entry.status = "pending"
    THEN [http |-> 200, status |-> "pending"]
    ELSE IF entry.status = "error"
    THEN [http |-> 200, status |-> "error", error |-> entry.error]
    ELSE [http |-> 200, status |-> "complete",
          access_token |-> entry.access_token,
          id_token |-> entry.id_token,
          user |-> entry.user]

\* the JSON body and HTTP status the handler answers for the record it read
StatusResponse(entry) ==
    IF entry = NoEntry
    THEN [http |-> 404, status |-> "not_found"]
    ELSE IF entry.status = "pending"
    THEN [http |-> 200, status |-> "pending"]
    ELSE IF entry.status = "error"
    THEN [http |-> 200, status |-> "error", error |-> entry.error]
    ELSE [http |-> 200, status |-> "complete",
          access_token |-> entry.access_token,
          id_token |-> entry.id_token,
          user |-> entry.user]

\* a handler that deletes whatever record it finds
StatusDeletes_Any(entry) == entry # NoEntry

\* a handler that forgets the delete of its error branch
StatusDeletes_OnlyComplete(entry) == entry # NoEntry /\ entry.status = "complete"

\* whether the handler deletes the record it read
StatusDeletes(entry) == entry # NoEntry /\ entry.status # "pending"

Status(state) ==
    LET entry == authStore[state] IN
    /\ authStore' = IF StatusDeletes(entry)
                    THEN [authStore EXCEPT ![state] = NoEntry]
                    ELSE authStore
    /\ delivered' = IF IsTerminal(entry)
                    THEN [delivered EXCEPT ![state] = @ + 1]
                    ELSE delivered
    /\ owed' = [owed EXCEPT ![state] = Undefined]
    /\ promised' = [promised EXCEPT ![state] =
                        IF @ \in {NoPromise, Consumed} THEN NoPromise ELSE Consumed]
    /\ answered' = [answered EXCEPT ![state] =
                        IF authStore' = authStore
                        THEN StatusResponse(entry).status ELSE "none"]
    /\ startedAt' = [startedAt EXCEPT ![state] =
                         IF authStore'[state] = NoEntry THEN -1 ELSE @]
    /\ UNCHANGED <<CLIENT_ID, now, nextSweep, issued, callbacks, pendingSince>>

(***************************************************************************)
(* GET /auth/google/callback                                                *)
(***************************************************************************)
\* authStore.set(state, {status: 'error', error, createdAt: Date.now()})
SetError(state, cause) ==
    /\ authStore' = [authStore EXCEPT ![state] = ErrorEntry(cause, now)]
    /\ pendingSince' = [pendingSince EXCEPT ![state] = -1]
    /\ promised' = promised
    /\ answered' = [answered EXCEPT ![state] = "none"]

\* authStore.set(state, {status: 'complete', createdAt: Date.now(), ...})
SetComplete(state, tokenData, user) ==
    /\ authStore' = [authStore EXCEPT ![state] = CompleteEntry(tokenData, user, now)]
    /\ pendingSince' = [pendingSince EXCEPT ![state] = -1]
    /\ promised' = [promised EXCEPT ![state] =
                        StatusResponse(CompleteEntry(tokenData, user, now))]
    /\ answered' = [answered EXCEPT ![state] = "none"]

\* the page a handler that returns before its first await answers with, and
\* its HTTP status; Suspended for a handler that goes on to the token exchange
Suspended == [http |-> 0, page |-> "none"]

\* a handler that tests the state parameter before the error parameter
CallbackResponse_StateFirst(code, state, error) ==
    IF state = NoState \/ ~Has(state)
    THEN [http |-> 400, page |-> "Invalid or expired state."]
    ELSE IF error # Undefined
    THEN [http |-> 200, page |-> "Authentication cancelled or failed."]
    ELSE IF code = Undefined
    THEN [http |-> 200, page |-> "No authorization code received."]
    ELSE Suspended

CallbackResponse(code, state, error) ==
    IF error # Undefined
    THEN [http |-> 200, page |-> "Authentication cancelled or failed."]
    ELSE IF state = NoState \/ ~Has(state)
    THEN [http |-> 400, page |-> "Invalid or expired state."]
    ELSE IF code = Undefined
    THEN [http |-> 200, page |-> "No authorization code received."]
    ELSE Suspended

\* the pages of a handler that came back from the provider: res.send(...)
CallbackStoredResponse ==
    [http |-> 200, page |-> "Authentication successful! You can close this window."]

CallbackCatchResponse(err) ==
    [http |-> 200, page |-> "Authentication failed: " \o ErrorMessage(err)]

\* the handler up to its first await (or to its return)
Callback(code, state, error) ==
    IF error # Undefined
    THEN /\ IF state # NoState /\ Has(state)
            THEN /\ SetError(state, error)
                 /\ owed' = IF authStore[state].status = "pending"
                            THEN [owed EXCEPT ![state] = error]
                            ELSE owed
            ELSE UNCHANGED <<authStore, pendingSince, owed, promised, answered>>
         /\ UNCHANGED <<CLIENT_ID, now, nextSweep, issued, callbacks, delivered,
                        startedAt>>
    ELSE IF state = NoState \/ ~Has(state)
    THEN UNCHANGED <<CLIENT_ID, authStore, now, nextSweep, issued, callbacks,
                        delivered, pendingSince, owed, startedAt, promised, answered>>
    ELSE IF code = Undefined
    THEN /\ SetError(state, "No authorization code received")
         /\ UNCHANGED <<CLIENT_ID, now, nextSweep, issued, callbacks, delivered,
                        owed, startedAt>>
    ELSE \* await axios.post(token endpoint)
         /\ Len(callbacks) < MaxCallbacks
         /\ callbacks' = Append(callbacks, [state |-> state, pc |-> "token"])
         /\ UNCHANGED <<CLIENT_ID, authStore, now, nextSweep, issued,
                        delivered, pendingSince, owed, startedAt, promised, answered>>

\* the catch block
CallbackCatch(i, err) ==
    LET state == callbacks[i].state
        message == ErrorMessage(err) IN
    /\ SetError(state, message)
    /\ callbacks' = [callbacks EXCEPT ![i] = [state |-> state, pc |-> "done"]]

\* the store of the successful result and the success page
CallbackStore(i, tokenData, user) ==
    LET state == callbacks[i].state IN
    /\ SetComplete(state, tokenData, user)
    /\ callbacks' = [callbacks EXCEPT ![i] = [state |-> state, pc |-> "done"]]

\* the token endpoint rejected the exchange
CallbackTokenFailed(i, err) ==
    /\ callbacks[i].pc = "token"
    /\ CallbackCatch(i, err)
    /\ UNCHANGED <<CLIENT_ID, now, nextSweep, issued, delivered, owed, startedAt>>

\* the token endpoint answered: from the first await to the second, or to the end
CallbackTokenData(i, tokenData) ==
    /\ callbacks[i].pc = "token"
    /\ IF tokenData.id_token # Undefined
       THEN \* await axios.get(tokeninfo)
            /\ callbacks' = [callbacks EXCEPT ![i] =
                   [state |-> callbacks[i].state, pc |-> "verify", tokenData |-> tokenData]]
            /\ UNCHANGED <<authStore, pendingSince, promised, answered>>
       ELSE CallbackStore(i, tokenData, NullUser)
    /\ UNCHANGED <<CLIENT_ID, now, nextSweep, issued, delivered, owed, startedAt>>

\* tokeninfo rejected the id token
CallbackVerifyFailed(i, err) ==
    /\ callbacks[i].pc = "verify"
    /\ CallbackCatch(i, err)
    /\ UNCHANGED <<CLIENT_ID, now, nextSweep, issued, delivered, owed, startedAt>>

\* a callback that accepts a verified token whatever its audience
AudienceOk_Unchecked(verified, clientId) == verified.aud = verified.aud

\* the audience test on the verified token
AudienceOk(verified, clientId) == verified.aud = clientId

\* tokeninfo answered: from the second await to the end
CallbackVerified(i) ==
    /\ callbacks[i].pc = "verify"
    /\ LET tokenData == callbacks[i].tokenData
           verified == Tokeninfo(tokenData.id_token) IN
       IF ~AudienceOk(verified, CLIENT_ID)
       THEN CallbackCatch(i, AudienceMismatch)
       ELSE CallbackStore(i, tokenData, DerivedUser(verified))
    /\ UNCHANGED <<CLIENT_ID, now, nextSweep, issued, delivered, owed, startedAt>>

Codes == {"xyz", Undefined}
ErrorParams == {"access_denied", Undefined}
StateParams == StateTokens \cup {NoState}

(***************************************************************************)
(* The popup controller (the App component) and its HTTP client.            *)
(***************************************************************************)
\* login attempts (clicks on the sign-in button) in one run
MaxAttempts == 3
\* login attempts in a run whose polls may use their whole budget (ClientSpec)
MaxLongAttempts == 2
\* status checks an attempt issues in a run of short polls (ReentrySpec)
MaxQuickTicks == 2
\* status checks that are unanswered at the same time (the request timeout
\* of 8000 ms against the tick interval of 1000 ms allows eight)
MaxInFlight == 2

MAX_POLL_ATTEMPTS == 300

Attempts == 1..MaxAttempts
\* pollIntervalRef.current === null
NoTimer == 0

\* useState<AuthState>({ loading: false, polling: false })
InitialAuthState ==
    [loading |-> FALSE, polling |-> FALSE, error |-> Undefined, success |-> FALSE]

VARIABLES
    authState,       \* the component's AuthState
    pollCountRef,    \* pollCountRef.current
    pollIntervalRef, \* pollIntervalRef.current: NoTimer or the id of an interval
    timers,          \* the poll intervals that are active, each named by the
                     \* attempt whose state-token its callback closes over
    logins,          \* handleLogin calls suspended at await startGoogleAuth()
    inflight,        \* per attempt, its status checks that are unanswered
    endpoint,        \* per attempt, whether the server can still hold a record
                     \* for its state-token ("live") or the record was consumed
                     \* by a status answer or swept ("gone")
    popup,           \* per attempt, its popup window: "none", "open", "closed"
    watchers,        \* the popupWatcher intervals that are active
    nAttempts,       \* handleLogin calls so far
    issuedChecks,    \* history: status checks the latest attempt has issued
    onlyPending,     \* history: every check the latest attempt has issued so
                     \* far and that is no longer in flight was answered pending
    completeAfter,   \* history: -1, or k when the endpoint answered pending to
                     \* the first k checks of the latest attempt and complete
                     \* to the next one
    answeredTerminal,\* history: the endpoint answered a check of the latest
                     \* attempt with complete, error or not_found
    outcomes,        \* history: final outcomes surfaced for the latest attempt
    timedOut         \* history: the attempts whose interval surfaced the timeout

clientVars ==
    <<authState, pollCountRef, pollIntervalRef, timers, logins, inflight, endpoint,
      popup, watchers, nAttempts, issuedChecks, onlyPending, completeAfter,
      answeredTerminal, outcomes, timedOut>>

historyVars ==
    <<issuedChecks, onlyPending, completeAfter, answeredTerminal, outcomes, timedOut>>

vars == <<serverVars, clientVars>>

ClientInit ==
    /\ authState = InitialAuthState
    /\ pollCountRef = 0
    /\ pollIntervalRef = NoTimer
    /\ timers = {}
    /\ logins = {}
    /\ inflight = [a \in Attempts |-> 0]
    /\ endpoint = [a \in Attempts |-> "live"]
    /\ popup = [a \in Attempts |-> "none"]
    /\ watchers = {}
    /\ nAttempts = 0
    /\ issuedChecks = 0
    /\ onlyPending = TRUE
    /\ completeAfter = -1
    /\ answeredTerminal = FALSE
    /\ outcomes = 0
    /\ timedOut = {}

Init == ServerInit /\ ClientInit

\* apiClient.get: axios resolves a 2xx response with its body and rejects any
\* other (the response interceptor turns the rejection into an Error)
ApiClientGet(response) ==
    IF response.http >= 200 /\ response.http < 300
    THEN [resolved |-> TRUE, data |-> response]
    ELSE [resolved |-> FALSE, message |-> "Request failed"]

\* the intervals that stay active when stopPolling() runs: it clears the one
\* pollIntervalRef.current names, if any
TimersAfterStop ==
    IF pollIntervalRef # NoTimer THEN timers \ {pollIntervalRef} ELSE timers

\* stopPolling()
StopPolling ==
    /\ timers' = TimersAfterStop
    /\ pollIntervalRef' = NoTimer
    /\ pollCountRef' = 0

\* a final outcome is surfaced; the history counts those of the latest attempt
Surface(attempt, state) ==
    /\ authState' = state
    /\ outcomes' = IF attempt = nAttempts /\ outcomes < 2 THEN outcomes + 1 ELSE outcomes

\* the click on the sign-in button: handleLogin up to await startGoogleAuth()
HandleLogin ==
    /\ nAttempts < MaxAttempts
    /\ ~authState.success /\ ~authState.loading /\ ~authState.polling
    /\ nAttempts' = nAttempts + 1
    /\ logins' = logins \cup {nAttempts + 1}
    /\ authState' = [InitialAuthState EXCEPT !.loading = TRUE]
    /\ issuedChecks' = 0
    /\ onlyPending' = TRUE
    /\ completeAfter' = -1
    /\ answeredTerminal' = FALSE
    /\ outcomes' = 0
    /\ UNCHANGED <<pollCountRef, pollIntervalRef, timers, inflight, endpoint, popup, watchers,
                   timedOut>>

\* startGoogleAuth() rejected: the catch block of handleLogin
LoginStartFailed(attempt) ==
    /\ attempt \in logins
    /\ logins' = logins \ {attempt}
    /\ Surface(attempt, [InitialAuthState EXCEPT !.error = "Failed to start authentication"])
    /\ UNCHANGED <<pollCountRef, pollIntervalRef, timers, inflight, endpoint, popup, watchers,
                   nAttempts, issuedChecks, onlyPending, completeAfter, answeredTerminal,
                   timedOut>>

\* a handler that goes on to startPolling although window.open returned nothing
LoginPopupBlocked_ThenPolls(attempt) ==
    /\ attempt \in logins
    /\ logins' = logins \ {attempt}
    /\ Surface(attempt, [InitialAuthState EXCEPT
                            !.error = "Popup blocked. Please allow popups for this site."])
    /\ pollIntervalRef' = attempt
    /\ timers' = timers \cup {attempt}
    /\ UNCHANGED <<pollCountRef, inflight, endpoint, popup, watchers,
                   nAttempts, issuedChecks, onlyPending, completeAfter, answeredTerminal,
                   timedOut>>

\* startGoogleAuth() resolved and window.open returned nothing
LoginPopupBlocked(attempt) ==
    /\ attempt \in logins
    /\ logins' = logins \ {attempt}
    /\ Surface(attempt, [InitialAuthState EXCEPT
                            !.error = "Popup blocked. Please allow popups for this site."])
    /\ UNCHANGED <<pollCountRef, pollIntervalRef, timers, inflight, endpoint, popup, watchers,
                   nAttempts, issuedChecks, onlyPending, completeAfter, answeredTerminal,
                   timedOut>>

\* startGoogleAuth() resolved and the popup opened: startPolling(state) and
\* the popupWatcher interval
LoginStartPolling(attempt) ==
    /\ attempt \in logins
    /\ logins' = logins \ {attempt}
    /\ authState' = [authState EXCEPT !.polling = TRUE]
    /\ pollIntervalRef' = attempt
    /\ timers' = timers \cup {attempt}
    /\ popup' = [popup EXCEPT ![attempt] = "open"]
    /\ watchers' = watchers \cup {attempt}
    /\ UNCHANGED <<pollCountRef, inflight, endpoint, nAttempts, historyVars>>

\* the status checks of attempts 1..n that are unanswered
RECURSIVE InFlightUpTo(_)
InFlightUpTo(n) == IF n = 0 THEN 0 ELSE inflight[n] + InFlightUpTo(n - 1)

\* one tick of the poll interval of an attempt, up to await checkAuthStatus
PollTick(attempt) ==
    /\ attempt \in timers
    /\ IF pollCountRef + 1 > MAX_POLL_ATTEMPTS
       THEN /\ StopPolling
            /\ Surface(attempt, [InitialAuthState EXCEPT
                   !.error = "Authentication timed out. Please try again."])
            /\ timedOut' = timedOut \cup {attempt}
            /\ UNCHANGED <<inflight, issuedChecks>>
       ELSE /\ InFlightUpTo(MaxAttempts) < MaxInFlight
            /\ pollCountRef' = pollCountRef + 1
            /\ inflight' = [inflight EXCEPT ![attempt] = @ + 1]
            /\ issuedChecks' = IF attempt = nAttempts /\ issuedChecks <= MAX_POLL_ATTEMPTS
                               THEN issuedChecks + 1 ELSE issuedChecks
            /\ UNCHANGED <<authState, pollIntervalRef, timers, outcomes, timedOut>>
    /\ UNCHANGED <<logins, endpoint, popup, watchers, nAttempts, onlyPending,
                   completeAfter, answeredTerminal>>

\* the records the status endpoint can find for the token of an attempt
EndpointEntries ==
    { NoEntry,
      PendingEntry(0),
      ErrorEntry("access_denied", 0),
      CompleteEntry([access_token |-> "T", id_token |-> "I_ours"],
                    DerivedUser(Tokeninfo("I_ours")), 0) }

\* what the tick does with a resolved result
ResultStops(result) == result.status \in {"complete", "error", "not_found"}

\* the auth state a resolved result is shown as
ResultState(result) ==
    IF result.status = "complete"
    THEN [InitialAuthState EXCEPT !.success = TRUE]
    ELSE IF result.status = "error"
    THEN [InitialAuthState EXCEPT !.error =
             IF result.error # Undefined /\ result.error # ""
             THEN result.error ELSE "Authentication failed"]
    ELSE [InitialAuthState EXCEPT !.error = "Session expired. Please try again."]

\* the history of the endpoint's answers to the latest attempt
RecordAnswer(attempt, response) ==
    IF attempt # nAttempts
    THEN UNCHANGED <<onlyPending, completeAfter, answeredTerminal>>
    ELSE /\ onlyPending' = (onlyPending /\ response.status = "pending")
         /\ completeAfter' = IF onlyPending /\ response.status = "complete"
                             THEN issuedChecks - inflight[attempt]
                             ELSE completeAfter
         /\ answeredTerminal' = (answeredTerminal \/ response.status # "pending")

\* the status endpoint answers a check from the record it finds for the
\* attempt's state-token, and the tick resumes after its await
CheckAnswered(attempt, entry) ==
    /\ inflight[attempt] > 0
    /\ endpoint[attempt] = "gone" => entry = NoEntry
    /\ endpoint' = [endpoint EXCEPT ![attempt] =
                       IF entry = NoEntry \/ StatusDeletes(entry) THEN "gone" ELSE "live"]
    /\ inflight' = [inflight EXCEPT ![attempt] = @ - 1]
    /\ RecordAnswer(attempt, StatusResponse(entry))
    /\ LET reply == ApiClientGet(StatusResponse(entry)) IN
       IF reply.resolved /\ ResultStops(reply.data)
       THEN /\ StopPolling
            /\ Surface(attempt, ResultState(reply.data))
       ELSE UNCHANGED <<authState, pollCountRef, pollIntervalRef, timers, outcomes>>
    /\ UNCHANGED <<logins, popup, watchers, nAttempts, issuedChecks, timedOut>>

\* a tick whose catch block gives up: it stops polling and shows an error
CheckFailed_Stops(attempt) ==
    /\ inflight[attempt] > 0
    /\ inflight' = [inflight EXCEPT ![attempt] = @ - 1]
    /\ onlyPending' = (onlyPending /\ attempt # nAttempts)
    /\ StopPolling
    /\ Surface(attempt, [InitialAuthState EXCEPT !.error = "Request failed"])
    /\ UNCHANGED <<logins, endpoint, popup, watchers, nAttempts, issuedChecks,
                   completeAfter, answeredTerminal, timedOut>>

\* a check fails in transport (no response within 8000 ms, network error):
\* the catch block of the tick
CheckFailed(attempt) ==
    /\ inflight[attempt] > 0
    /\ inflight' = [inflight EXCEPT ![attempt] = @ - 1]
    /\ onlyPending' = (onlyPending /\ attempt # nAttempts)
    /\ UNCHANGED <<authState, pollCountRef, pollIntervalRef, timers, logins, endpoint,
                   popup, watchers, nAttempts, issuedChecks, completeAfter,
                   answeredTerminal, outcomes, timedOut>>

\* a callback handler that was suspended at the provider writes its result
\* (authStore.set) for the state-token of an attempt after the record was
\* consumed or swept: the endpoint finds a record again
CallbackWrites(attempt) ==
    /\ popup[attempt] # "none"
    /\ endpoint[attempt] = "gone"
    /\ endpoint' = [endpoint EXCEPT ![attempt] = "live"]
    /\ UNCHANGED <<authState, pollCountRef, pollIntervalRef, timers, logins, inflight,
                   popup, watchers, nAttempts, historyVars>>

\* the popup window closes (its page closes itself, or the user closes it)
PopupCloses(attempt) ==
    /\ popup[attempt] = "open"
    /\ popup' = [popup EXCEPT ![attempt] = "closed"]
    /\ UNCHANGED <<authState, pollCountRef, pollIntervalRef, timers, logins, inflight,
                   endpoint, watchers, nAttempts, historyVars>>

\* a tick of popupWatcher that sees popup.closed: it clears itself, and the
\* timeout it sets changes nothing
WatcherTick(attempt) ==
    /\ attempt \in watchers
    /\ popup[attempt] = "closed"
    /\ watchers' = watchers \ {attempt}
    /\ UNCHANGED <<authState, pollCountRef, pollIntervalRef, timers, logins, inflight,
                   endpoint, popup, nAttempts, historyVars>>

\* the click on the sign-out button
HandleLogout ==
    /\ authState.success
    /\ authState' = InitialAuthState
    /\ UNCHANGED <<pollCountRef, pollIntervalRef, timers, logins, inflight, endpoint,
                   popup, watchers, nAttempts, historyVars>>

\* one step of the server; the embedding page stands still
Next ==
    \/ Tick /\ UNCHANGED clientVars
    \/ Sweep /\ UNCHANGED clientVars
    \/ Start /\ UNCHANGED clientVars
    \/ \E state \in StateTokens : Status(state) /\ UNCHANGED clientVars
    \/ \E code \in Codes, state \in StateParams, error \in ErrorParams :
          Callback(code, state, error) /\ UNCHANGED clientVars
    \/ \E i \in 1..Len(callbacks), err \in ProviderErrors :
          CallbackTokenFailed(i, err) /\ UNCHANGED clientVars
    \/ \E i \in 1..Len(callbacks), tokenData \in TokenBundles :
          CallbackTokenData(i, tokenData) /\ UNCHANGED clientVars
    \/ \E i \in 1..Len(callbacks), err \in ProviderErrors :
          CallbackVerifyFailed(i, err) /\ UNCHANGED clientVars
    \/ \E i \in 1..Len(callbacks) : CallbackVerified(i) /\ UNCHANGED clientVars

Spec == Init /\ [][Next]_vars

\* one step of the embedding page; the status endpoint is its environment
ClientNext ==
    \/ nAttempts < MaxLongAttempts /\ HandleLogin /\ UNCHANGED serverVars
    \/ \E attempt \in Attempts : LoginStartFailed(attempt) /\ UNCHANGED serverVars
    \/ \E attempt \in Attempts : LoginPopupBlocked(attempt) /\ UNCHANGED serverVars
    \/ \E attempt \in Attempts : LoginStartPolling(attempt) /\ UNCHANGED serverVars
    \/ \E attempt \in Attempts : PollTick(attempt) /\ UNCHANGED serverVars
    \/ \E attempt \in Attempts, entry \in EndpointEntries :
          CheckAnswered(attempt, entry) /\ UNCHANGED serverVars
    \/ \E attempt \in Attempts : CheckFailed(attempt) /\ UNCHANGED serverVars
    \/ \E attempt \in Attempts : CallbackWrites(attempt) /\ UNCHANGED serverVars
    \/ \E attempt \in Attempts : PopupCloses(attempt) /\ UNCHANGED serverVars
    \/ \E attempt \in Attempts : WatcherTick(attempt) /\ UNCHANGED serverVars
    \/ HandleLogout /\ UNCHANGED serverVars

\* the embedding page against a configured server
ClientInit0 == Init /\ CLIENT_ID = OurClientId

ClientSpec == ClientInit0 /\ [][ClientNext]_vars

\* one step of the embedding page in a run of short polls: the sign-in button
\* is clicked up to MaxAttempts times, and no poll comes near its budget
ReentryNext ==
    \/ HandleLogin /\ UNCHANGED serverVars
    \/ \E attempt \in Attempts : LoginStartFailed(attempt) /\ UNCHANGED serverVars
    \/ \E attempt \in Attempts : LoginPopupBlocked(attempt) /\ UNCHANGED serverVars
    \/ \E attempt \in Attempts : LoginStartPolling(attempt) /\ UNCHANGED serverVars
    \/ \E attempt \in Attempts :
          /\ pollCountRef < MaxQuickTicks /\ issuedChecks < MaxQuickTicks
          /\ PollTick(attempt) /\ UNCHANGED serverVars
    \/ \E attempt \in Attempts, entry \in EndpointEntries :
          CheckAnswered(attempt, entry) /\ UNCHANGED serverVars
    \/ \E attempt \in Attempts : CheckFailed(attempt) /\ UNCHANGED serverVars
    \/ \E attempt \in Attempts : CallbackWrites(attempt) /\ UNCHANGED serverVars
    \/ \E attempt \in Attempts : PopupCloses(attempt) /\ UNCHANGED serverVars
    \/ \E attempt \in Attempts : WatcherTick(attempt) /\ UNCHANGED serverVars
    \/ HandleLogout /\ UNCHANGED serverVars

ReentrySpec == ClientInit0 /\ [][ReentryNext]_vars

(***************************************************************************)
(* Properties of the server (checked under Spec).                           *)
(***************************************************************************)
TerminalStatuses == {"complete", "error"}
NotFoundResponse == [http |-> 404, status |-> "not_found"]

\* a record without its timestamp: status and payload
Payload(entry) ==
    IF entry = NoEntry THEN entry ELSE [entry EXCEPT !.createdAt = 0]

\* C1: for every state-token, status answers a terminal payload (complete or
\* error) at most once in the whole run, whatever the interleaving of start,
\* callback (suspended handlers included), status and sweep.
C1_DeliveredAtMostOnce ==
    \A s \in StateTokens : delivered[s] <= 1

\* C2: when status(s) answers a terminal payload, the record of s is absent
\* from the store in the resulting state, and a status(s) issued in that state
\* answers not_found.
C2_TerminalReadConsumes ==
    [][\A s \in StateTokens :
          (Status(s) /\ StatusResponse(authStore[s]).status \in TerminalStatuses)
          => /\ authStore'[s] = NoEntry
             /\ StatusResponse(authStore'[s]) = NotFoundResponse]_vars

\* C2 witness: a terminal payload has been answered and its record is gone
C2_Witness ==
    \E s \in StateTokens : delivered[s] = 1 /\ authStore[s] = NoEntry

\* C3: once the record of a state-token is complete or error, no later step
\* changes its status or payload; the only step that follows is its deletion.
C3_TerminalWrittenOnce ==
    [][\A s \in StateTokens :
          IsTerminal(authStore[s])
          => \/ authStore'[s] = NoEntry
             \/ Payload(authStore'[s]) = Payload(authStore[s])]_vars

\* C4: a record start created more than the TTL ago and no callback has
\* written a terminal status for is absent from the store once the cleanup
\* tick of the current instant has run, and status then answers not_found.
C4_UnfinalizedExpiredIsSwept ==
    \A s \in StateTokens :
        (/\ pendingSince[s] >= 0
         /\ now - pendingSince[s] > AUTH_TTL_MS
         /\ nextSweep > now)
        => /\ authStore[s] = NoEntry
           /\ StatusResponse(authStore[s]) = NotFoundResponse

\* C4 witness: a never-finalized record older than the TTL, after the sweep
C4_Witness ==
    \E s \in StateTokens :
        /\ pendingSince[s] >= 0
        /\ now - pendingSince[s] > AUTH_TTL_MS
        /\ nextSweep > now
        /\ s \in issued

\* C5: after a callback with an error parameter found the record of X pending,
\* the next status(X) answers status error with that cause, unless the sweep
\* removed X in between.
C5_ErrorCallbackThenStatus ==
    [][\A s \in StateTokens :
          (Status(s) /\ owed[s] # Undefined)
          => StatusResponse(authStore[s]) =
                [http |-> 200, status |-> "error", error |-> owed[s]]]_vars

\* the id token of a complete record, if any, was issued for this client
ForThisClient(entry) ==
    entry.status = "complete" /\ entry.id_token # Undefined
    => Tokeninfo(entry.id_token).aud = CLIENT_ID

\* C6: a callback whose id token verifies with an audience other than the
\* configured client identifier leaves the record of its state in error, and
\* no record (hence no status answer) is ever complete with such a token.
C6_AudienceMismatchIsError ==
    [][/\ \A i \in 1..Len(callbacks) :
            (/\ callbacks[i].pc = "verify"
             /\ Tokeninfo(callbacks[i].tokenData.id_token).aud # CLIENT_ID
             /\ callbacks'[i].pc = "done")
            => authStore'[callbacks[i].state].status = "error"
       /\ \A s \in StateTokens :
            /\ ForThisClient(authStore'[s])
            /\ LET answer == StatusResponse(authStore'[s]) IN
               (answer.status = "complete" /\ answer.id_token # Undefined)
               => Tokeninfo(answer.id_token).aud = CLIENT_ID]_vars

\* C6 witness: a callback was rejected for its audience
C6_Witness ==
    \E s \in StateTokens :
        /\ authStore[s].status = "error"
        /\ authStore[s].error = "Token audience mismatch"

\* C7: status on a state-token that has no record (never issued, consumed or
\* swept) can always run and answers not_found (404) as a normal response.
C7_UnknownIsNotFound ==
    \A s \in StateTokens :
        authStore[s] = NoEntry
        => /\ ENABLED Status(s)
           /\ StatusResponse(authStore[s]) = NotFoundResponse

\* C7 witness: one token consumed by status, another never issued
C7_Witness ==
    \E s, u \in StateTokens :
        /\ s \in issued /\ delivered[s] >= 1 /\ authStore[s] = NoEntry
        /\ u \notin issued /\ authStore[u] = NoEntry

\* C13: after a callback with a code for state s stored the result of its
\* exchange, the next status(s) answers complete with exactly the access
\* token, id token and user of that exchange, and the status(s) after that
\* answers not_found.
C13_CompleteThenNotFound ==
    [][\A s \in StateTokens :
          Status(s)
          => /\ promised[s] \notin {NoPromise, Consumed}
                => StatusResponse(authStore[s]) = promised[s]
             /\ promised[s] = Consumed
                => StatusResponse(authStore[s]) = NotFoundResponse]_vars

\* C14: only start adds a key to the store: a record appears for a state-token
\* only in the step in which start issues the token, so no callback write
\* re-creates a record that the sweep or a status read deleted.
C14_OnlyStartAddsKeys ==
    [][\A s \in StateTokens :
          (authStore[s] = NoEntry /\ authStore'[s] # NoEntry)
          => (s \notin issued /\ s \in issued')]_vars

InvalidStateResponse == [http |-> 400, page |-> "Invalid or expired state."]

\* C15: a callback whose state parameter is missing or names no record cannot
\* change the store and is answered with the invalid-state page (HTTP 400),
\* with or without an error parameter; every other callback is answered with
\* HTTP 200, at its return or after the provider exchange.
C15_InvalidStateIs400 ==
    /\ \A code \in Codes, state \in StateParams, error \in ErrorParams :
          IF state = NoState \/ ~Has(state)
          THEN /\ ~ENABLED (Callback(code, state, error) /\ authStore' # authStore)
               /\ CallbackResponse(code, state, error) = InvalidStateResponse
          ELSE CallbackResponse(code, state, error).http \in {200, Suspended.http}
    /\ CallbackStoredResponse.http = 200
    /\ \A err \in ProviderErrors \cup {AudienceMismatch} :
          CallbackCatchResponse(err).http = 200

CancelledResponse == [http |-> 200, page |-> "Authentication cancelled or failed."]

\* C15, as the handler behaves: a callback whose state parameter is missing
\* or names no record cannot change the store; without an error parameter it
\* is answered with the invalid-state page (HTTP 400), with an error
\* parameter with the cancelled-or-failed page (HTTP 200); every other
\* callback is answered with HTTP 200.
C15_InvalidStateIs400UnlessError ==
    /\ \A code \in Codes, state \in StateParams, error \in ErrorParams :
          IF state = NoState \/ ~Has(state)
          THEN /\ ~ENABLED (Callback(code, state, error) /\ authStore' # authStore)
               /\ CallbackResponse(code, state, error) =
                     IF error = Undefined THEN InvalidStateResponse ELSE CancelledResponse
          ELSE CallbackResponse(code, state, error).http \in {200, Suspended.http}
    /\ CallbackStoredResponse.http = 200
    /\ \A err \in ProviderErrors \cup {AudienceMismatch} :
          CallbackCatchResponse(err).http = 200

\* C15 witness: a callback wrote an error for a state that had a record, and
\* the record of another issued state is gone, so a callback naming it finds
\* no record
C15_Witness ==
    \E s, u \in StateTokens :
        /\ authStore[s] # NoEntry /\ authStore[s].status = "error"
        /\ u \in issued /\ authStore[u] = NoEntry

\* C16: status changes the store only when the record it finds is terminal:
\* on a pending record it answers pending and cannot change the store (that
\* record, its createdAt, or any other record), and when it answers not_found
\* it cannot change the store.
C16_StatusFrame ==
    \A s \in StateTokens :
        /\ ~IsTerminal(authStore[s])
           => ~ENABLED (Status(s) /\ authStore' # authStore)
        /\ (authStore[s] # NoEntry /\ authStore[s].status = "pending")
           => StatusResponse(authStore[s]) = [http |-> 200, status |-> "pending"]
        /\ authStore[s] = NoEntry
           => StatusResponse(authStore[s]) = NotFoundResponse
        /\ \A u \in StateTokens \ {s} :
              ~ENABLED (Status(s) /\ authStore'[u] # authStore[u])

\* C16 witness: status has answered pending for one token and not_found for
\* the other, the pending record still carries the timestamp of its start,
\* and the other token has no record
C16_Witness ==
    \E s, u \in StateTokens :
        /\ answered[s] = "pending" /\ authStore[s] = PendingEntry(startedAt[s])
        /\ answered[u] = "not_found" /\ authStore[u] = NoEntry

\* C19: whatever callbacks wrote to it, a record is out of the store once the
\* sweep has run at the instant TTL + one sweep interval after start created
\* it (the sweep computes expiry from the time of the start).
C19_GoneAfterTtlPlusInterval ==
    \A s \in StateTokens :
        (authStore[s] # NoEntry /\ startedAt[s] >= 0 /\ nextSweep > now)
        => now - startedAt[s] < AUTH_TTL_MS + SWEEP_INTERVAL_MS

(***************************************************************************)
(* Properties of the popup controller (checked under ClientSpec and, for    *)
(* overlapping attempts, under ReentrySpec).                                *)
(***************************************************************************)
\* C8: once the endpoint has answered a check of a login attempt with
\* complete, error or not_found (its 404, as the HTTP client delivers it),
\* polling has stopped: the poll timer of the attempt is cleared, so no later
\* check is issued for it.
C8_TerminalAnswerStopsPolling ==
    answeredTerminal => nAttempts \notin timers

\* C9: a login attempt surfaces one final outcome (success, error, session
\* expired or timeout); no later response of one of its checks replaces it.
C9_OneOutcomePerAttempt ==
    outcomes <= 1

\* C10: when the endpoint answers pending to the first k checks of a login
\* attempt and complete to the next one, the controller has issued exactly
\* k + 1 checks for the attempt, and issues none afterwards.
C10_ChecksUntilComplete ==
    completeAfter >= 0 => issuedChecks = completeAfter + 1

\* C11: a login attempt issues at most 300 status checks, and the tick after
\* the 300th check (it issues no request and surfaces the timeout) stops the
\* timer: stopPolling() in the tick of an active poll timer clears that
\* timer, so polling always ends.
C11_PollingEnds ==
    /\ issuedChecks <= MAX_POLL_ATTEMPTS
    /\ \A attempt \in timers : attempt \notin TimersAfterStop

PopupBlockedError == "Popup blocked. Please allow popups for this site."

\* an attempt whose handleLogin has returned without opening a popup
EndedWithoutPopup(attempt) ==
    attempt <= nAttempts /\ attempt \notin logins /\ popup[attempt] = "none"

\* C12: when window.open returns nothing, handleLogin reports the
\* popup-blocked error and creates no poll timer; an attempt that ended without
\* a popup never has a poll timer and never has a status check in flight.
C12_PopupBlockedNeverPolls ==
    [][/\ \A attempt \in Attempts :
            LoginPopupBlocked(attempt)
            => /\ authState' = [InitialAuthState EXCEPT !.error = PopupBlockedError]
               /\ timers' = timers /\ pollIntervalRef' = pollIntervalRef
               /\ inflight' = inflight
       /\ \A attempt \in Attempts :
            EndedWithoutPopup(attempt)'
            => attempt \notin timers' /\ inflight'[attempt] = 0]_vars

\* C12 witness: the popup of an attempt was blocked, and the error is on display
C12_Witness ==
    \E attempt \in Attempts :
        EndedWithoutPopup(attempt) /\ authState.error = PopupBlockedError

\* what a check that did not resolve must leave alone: the displayed state,
\* the poll timers, and the counter from which the next tick decides whether
\* it issues a check (it does unless the counter has reached the budget)
PollingUntouched ==
    /\ authState' = authState
    /\ timers' = timers
    /\ pollIntervalRef' = pollIntervalRef
    /\ pollCountRef' = pollCountRef

\* C17: a status check that fails in transport, or that the HTTP client
\* rejects, does not end polling and surfaces no error: the displayed state,
\* the timer and the poll counter stay as they were, so the next tick issues
\* another check unless the budget is used up.
C17_TransportFailureKeepsPolling ==
    [][/\ \A attempt \in Attempts : CheckFailed(attempt) => PollingUntouched
       /\ \A attempt \in Attempts, entry \in EndpointEntries :
            (CheckAnswered(attempt, entry) /\ ~ApiClientGet(StatusResponse(entry)).resolved)
            => PollingUntouched]_vars

\* C17 witness: the one check of the running attempt that is no longer in
\* flight failed in transport (it was not answered pending, and nothing else
\* was answered), the timer is active, and a tick after the failure has
\* issued another check
C17_Witness ==
    /\ ~onlyPending /\ ~answeredTerminal
    /\ nAttempts \in timers
    /\ issuedChecks = MaxInFlight + 1
    /\ inflight[nAttempts] = MaxInFlight

\* C18: at most one status check of the controller is in flight at any time.
C18_OneCheckInFlight ==
    InFlightUpTo(MaxAttempts) <= 1

\* C20: in every state reached right after the sign-out action no poll timer
\* is active, and the closure of the popup window (the popup closing, the
\* watcher noticing it) never clears a poll timer.
C20_SignOutLeavesNoTimer ==
    [][/\ HandleLogout => timers' = {}
       /\ \A attempt \in Attempts :
            (PopupCloses(attempt) \/ WatcherTick(attempt)) => timers' = timers]_vars

\* C21: the response of a status check of an earlier attempt, one that ended
\* by timeout with the check still in flight, leaves a later attempt alone:
\* it does not clear the poll timer or reset the poll counter, and it does not
\* replace the displayed auth state.
C21_LateResponseLeavesLaterAttempt ==
    [][\A attempt \in Attempts, entry \in EndpointEntries :
          (/\ CheckAnswered(attempt, entry)
           /\ attempt \in timedOut
           /\ attempt < nAttempts)
          => PollingUntouched]_vars

=============================================================================
